---- MODULE Spec2Model ----
(***************************************************************************)
(* Flight computer core of Project-Yellowjacket (src/core/main.py).        *)
(*                                                                         *)
(* The specifications, over one set of variables:                          *)
(*   Spec        main() from its first statement: the first bounded        *)
(*               buzzer burst, uasyncio.wait_for(start_buzzer(), 3).       *)
(*   FlightSpec  the flight loop of main() (lines 44-67), started from the *)
(*               state that lines 35-43 establish, followed by the         *)
(*               terminal buzzer burst of line 63.                         *)
(*   QueueSpec   a Queue (src/unused/queue.py) between the callers of      *)
(*               put_nowait and one task that calls get in a loop; and     *)
(*               the construction of a Radio (src/core/radio.py).          *)
(*   BusSpec     one register field (src/core/utils/i2c_bit.py,            *)
(*               i2c_bits.py, i2c_struct.py) constructed and used against  *)
(*               a device, or one Barometer (src/core/barometer.py)        *)
(*               constructed, reset, initialized and read against its      *)
(*               device, its sea level pressure set; every bus operation   *)
(*               may fault.                                                *)
(*   TaskSpec    two tasks, each calling get and set of a register field   *)
(*               of its own on the one bus, run by the cooperative         *)
(*               scheduler.                                                *)
(*   PureSpec    the decoding functions of src/core/barometer.py           *)
(*               (twos_complement, the coefficient unpacking of            *)
(*               _read_calibration) and the sign extension of ROBits.get,  *)
(*               each applied to an argument drawn from a bounded set.     *)
(*                                                                         *)
(* Units.  An accelerometer reading is a whole number of g; accelerations  *)
(* are kept in hundredths of m/s^2 (9.81 m/s^2 is 981), so the thresholds  *)
(* 30 and 0 of the loop are 3000 and 0.  Altitudes are whole metres,       *)
(* pressures hundredths of hPa.                                            *)
(* ticks_ms() is the variable now; it advances by one per tick.            *)
(***************************************************************************)
EXTENDS Integers, Sequences, FiniteSets

VARIABLES
    pc,           \* where main() is: "burst1", "loop", "terminal", "raised"
                  \* (ended by TimeoutError), "fault" (ended by OSError)
    buzzer,       \* level of the buzzer pin (machine.Pin(46)): 0 off, 1 on
    bz,           \* the start_buzzer task: "none", "new", "sleep21", "sleep23", "cancelled"
    pulses,       \* buzzer.on() calls made by the running start_buzzer task
    accels,       \* deque((), 3) of line 35
    hit_apogee,   \* line 38
    launched,     \* line 55 (FALSE: not yet bound)
    max_accel,    \* line 41
    max_height,   \* line 42
    launch_time,  \* line 43
    log,          \* the lines written to log.txt, in order
    now,          \* ticks_ms()
    zs,           \* every accel_z sample read so far, in acquisition order
    hs,           \* every altitude sample read so far, in acquisition order
    yields,       \* the times main() has suspended (handed the processor to
                  \* the scheduler) since it entered the flight loop
    \* --- the send queue
    radio,        \* the Radio: "none" (none made), "TypeError" (__init__ raised)
    q,            \* Queue._queue of a Queue made by Queue()
    ev,           \* Queue._ev: the state of the uasyncio.Event
    cs,           \* per task that calls Queue.get in a loop: "new", "running"
                  \* (holds the processor, about to call get), "waiting"
                  \* (suspended in _ev.wait()), "ready" (released by _ev.set(),
                  \* not yet run), "IndexError";
                  \* in TaskSpec, per task: the field call it is in, the bus
                  \* operations of it already issued, its calls so far and
                  \* its field's buffer
    sent,         \* every item passed to Queue.put_nowait, in order
    dequeued,     \* every item returned by Queue.get
    woke,         \* the items returned by the gets that had suspended
    \* --- the bus, one register field, the barometer driver
    fstate,       \* the field under test: "none", "ok" (constructed), "ValueError"
    fld,          \* its constructor arguments
    fbuf,         \* its self.buffer (Python index i is fbuf[i + 1])
    dev,          \* the device's registers: register address -> byte
    ops,          \* the bus operations issued by the last call, in order
    ret,          \* the last call: what was called, how it ended, what it returned
    bpc,          \* the Barometer: "off" (none made), "new" (made, never
                  \* reset), and then how the latest step of a reset left it:
                  \* "sleep10" (a reset has started and suspended in its sleep),
                  \* "reset" (a reset has run to its end, the scales unbound),
                  \* "initialized" (one has, the scales bound), "OSError" (a
                  \* reset was ended by a bus fault)
    battr,        \* the Barometer's attributes that reset and initialize assign
    sleeping,     \* the calls of reset and initialize suspended in the sleep of
                  \* line 104, in the order in which they wake
    \* --- the decoding functions, applied to an argument
    arg,          \* the argument: a calibration buffer, or a width and a value
    res           \* the result of the function applied to it

mainVars == <<pc, buzzer, bz, pulses, accels, hit_apogee, launched, max_accel,
              max_height, launch_time, log, now, zs, hs, yields>>

queueVars == <<radio, q, ev, cs, sent, dequeued, woke>>

busVars == <<fstate, fld, fbuf, dev, ops, ret, bpc, battr, sleeping>>

pureVars == <<arg, res>>

auxVars == <<queueVars, busVars, pureVars>>

vars == <<mainVars, queueVars, busVars, pureVars>>

flightVars == <<accels, hit_apogee, launched, max_accel, max_height,
                launch_time, log, now, zs, hs, yields>>

\* ------------------------------------------------------------------ bounds

\* Ticks of the flight loop per run.
MaxTicks == 5

\* Pulses of one buzzer burst before its deadline must have fired.
MaxPulses == 30

\* Calls of Barometer.reset per run.
MaxResets == 2

\* Accelerometer readings (first component of accel(), in g).
RawZ == {-4, -2, -1, 1}

\* ----------------------------------------------------------------- helpers

\* normalised_acceleration()[2]: z, x, y = accel(); accel_z = -z * 9.81
NormalisedZ(z) == (0 - z) * 981

\* sum(accels)
RECURSIVE Sum(_)
Sum(s) == IF s = <<>> THEN 0 ELSE Head(s) + Sum(Tail(s))

\* A mutant of DequeAppend: a deque without maxlen.
DequeAppendUnbounded(d, x) == Append(d, x)

\* deque.append on a deque of maxlen 3: the oldest sample is evicted when full
DequeAppend(d, x) == IF Len(d) = 3 THEN Append(Tail(d), x) ELSE Append(d, x)

\* if x > old: old = x   (lines 46-47 and 51-52)
RunningMax(old, x) == IF x > old THEN x ELSE old

\* ticks_diff(a, b); the clock does not wrap within a run of the model
TicksDiff(a, b) == a - b

\* One log.write call: a tag and the values formatted into the text.
Line(tag, a, b) == [tag |-> tag, a |-> a, b |-> b]

\* Number of lines of the log with the given tag.
Count(tag, l) == Cardinality({i \in DOMAIN l : l[i].tag = tag})

\* Lines 53-56: the launch test.
LaunchTest(rolling_total) == rolling_total > 3000

\* A mutant of Descent: the apogee branch falls through into the landing branch.
DescentFallThrough(rolling_total, apogee, t, lt, ma, mh) ==
    IF rolling_total < 0
    THEN IF apogee
         THEN [lines |-> <<Line("H", TicksDiff(t, lt), 0), Line("stats", ma, mh)>>,
               hit |-> TRUE, landed |-> TRUE]
         ELSE [lines |-> <<Line("A", TicksDiff(t, lt), 0),
                           Line("H", TicksDiff(t, lt), 0), Line("stats", ma, mh)>>,
               hit |-> TRUE, landed |-> TRUE]
    ELSE [lines |-> <<>>, hit |-> apogee, landed |-> FALSE]

\* A mutant of Descent: the landing branch writes the elapsed time only.
DescentNoStats(rolling_total, apogee, t, lt, ma, mh) ==
    IF rolling_total < 0
    THEN IF apogee
         THEN [lines |-> <<Line("H", TicksDiff(t, lt), 0)>>, hit |-> TRUE, landed |-> TRUE]
         ELSE [lines |-> <<Line("A", TicksDiff(t, lt), 0)>>, hit |-> TRUE, landed |-> FALSE]
    ELSE [lines |-> <<>>, hit |-> apogee, landed |-> FALSE]

\* Lines 58-67: the descent test.  lines: what is written to the log;
\* hit: hit_apogee afterwards; landed: the landing branch was taken.
Descent(rolling_total, apogee, t, lt, ma, mh) ==
    IF rolling_total < 0
    THEN IF apogee
         THEN [lines |-> <<Line("H", TicksDiff(t, lt), 0), Line("stats", ma, mh)>>,
               hit |-> TRUE, landed |-> TRUE]
         ELSE [lines |-> <<Line("A", TicksDiff(t, lt), 0)>>,
               hit |-> TRUE, landed |-> FALSE]
    ELSE [lines |-> <<>>, hit |-> apogee, landed |-> FALSE]

\* A mutant of AfterTick: the landing branch does not leave the loop.
AfterTickNoStop(landed) == "loop"

\* Lines 63-64: the landing branch awaits the terminal burst and leaves the
\* loop; every other tick goes round the while True.
AfterTick(landed) == IF landed THEN "terminal" ELSE "loop"

\* --------------------------------------------------------------- initially

\* No Radio and no Queue has been constructed.
QueueIdle ==
    /\ radio = "none"
    /\ q = <<>>
    /\ ev = FALSE
    /\ cs = <<>>
    /\ sent = <<>>
    /\ dequeued = <<>>
    /\ woke = <<>>

\* The last call, before any call was made.
NoCall == [call |-> "none", status |-> "none", value |-> 0, read |-> <<>>]

\* No register field and no Barometer is in use.
BusIdle ==
    /\ fstate = "none"
    /\ fld = <<>>
    /\ fbuf = <<>>
    /\ dev = <<>>
    /\ ops = <<>>
    /\ ret = NoCall
    /\ bpc = "off"
    /\ battr = <<>>
    /\ sleeping = <<>>

\* No decoding function is under test.
PureIdle == arg = <<>> /\ res = <<>>

\* main() is not running.
MainIdle ==
    /\ pc = "none"
    /\ buzzer = 0
    /\ bz = "none"
    /\ pulses = 0
    /\ accels = <<>>
    /\ hit_apogee = FALSE
    /\ launched = FALSE
    /\ max_accel = 0
    /\ max_height = 0
    /\ launch_time = 0
    /\ log = <<>>
    /\ now = 0
    /\ zs = <<>>
    /\ hs = <<>>
    /\ yields = 0

\* ----------------------------------------------------------------- actions

\* start_buzzer lines 19-21: buzzer.off(), then suspend in sleep(50e-6).
BuzzerOff ==
    /\ pc \in {"burst1", "terminal"}
    /\ bz \in {"new", "sleep23"}
    /\ buzzer' = 0
    /\ bz' = "sleep21"
    /\ UNCHANGED <<pc, pulses>>
    /\ UNCHANGED flightVars
    /\ UNCHANGED auxVars

\* start_buzzer lines 22-23: buzzer.on(), then suspend in sleep(100e-6).
BuzzerOn ==
    /\ pc \in {"burst1", "terminal"}
    /\ bz = "sleep21"
    /\ pulses < MaxPulses
    /\ buzzer' = 1
    /\ bz' = "sleep23"
    /\ pulses' = pulses + 1
    /\ UNCHANGED pc
    /\ UNCHANGED flightVars
    /\ UNCHANGED auxVars

\* The deadline of uasyncio.wait_for (lines 32 and 63): the start_buzzer task
\* never returns, so the timeout always elapses; wait_for cancels the task at
\* the sleep it is suspended in and raises TimeoutError in main(), which has
\* no handler.
Deadline ==
    /\ pc \in {"burst1", "terminal"}
    /\ bz \in {"sleep21", "sleep23"}
    /\ bz' = "cancelled"
    /\ pc' = "raised"
    /\ UNCHANGED <<buzzer, pulses>>
    /\ UNCHANGED flightVars
    /\ UNCHANGED auxVars

\* -------------------------------------------------------------- send queue

\* Items passed to Queue.put_nowait per run.
MaxSends == 4

\* Payloads handed to Queue.put_nowait.
Payloads == {1, 2}

\* The tasks of QueueSpec: the single consumer of the queue, a task that
\* calls get in a loop as Radio.send_loop does.
OneConsumer == {1}

\* The tasks of RaceSpec: two tasks calling Queue.get on one queue.
TwoConsumers == {1, 2}

\* A mutant of QueuePop: list.pop() takes the tail.
QueuePopLast(l) == [item |-> l[Len(l)], rest |-> SubSeq(l, 1, Len(l) - 1)]

\* queue.py line 24: self._queue.pop(0)
QueuePop(l) == [item |-> Head(l), rest |-> Tail(l)]

\* A mutant of ClearIfEmpty: the event is cleared after every removal.
ClearAlways(rest, e) == FALSE

\* A mutant of ClearIfEmpty: the event is left as it is.
ClearNever(rest, e) == e

\* queue.py lines 25-27: finally: if not self._queue: self._ev.clear()
ClearIfEmpty(rest, e) == IF rest = <<>> THEN FALSE ELSE e

\* No consumer task holds the processor: another task can run.
NoneRunning == \A c \in DOMAIN cs : cs[c] # "running"

\* A mutant of Released: Event.set() releases only the first waiting task.
ReleasedFirst(states) ==
    [c \in DOMAIN states |->
        IF states[c] = "waiting" /\ \A d \in DOMAIN states : d < c => states[d] # "waiting"
        THEN "ready" ELSE states[c]]

\* Event.set() that releases nobody.
ReleasedNone(states) == states

\* uasyncio.Event.set(): every task waiting on the event is made ready.
Released(states) == [c \in DOMAIN states |-> IF states[c] = "waiting" THEN "ready" ELSE states[c]]

\* A Queue made by Queue() (queue.py lines 11-13), and one consumer task
\* created for it.
QueueInit ==
    /\ MainIdle
    /\ radio = "none"
    /\ q = <<>>
    /\ ev = FALSE
    /\ cs = [c \in OneConsumer |-> "new"]
    /\ sent = <<>>
    /\ dequeued = <<>>
    /\ woke = <<>>
    /\ BusIdle
    /\ PureIdle

\* Radio(data_pin) (radio.py lines 7-9): line 8 binds data_pin, and line 9
\* subscripts the class Queue, Queue[bytes]; Generic[T] of utils/typing.py is
\* object, so Queue has no __class_getitem__ and the subscript raises
\* TypeError.  No Radio comes to exist: send and send_loop have no object to
\* be called on.
RadioConstruct ==
    /\ NoneRunning
    /\ radio = "none"
    /\ radio' = "TypeError"
    /\ UNCHANGED <<q, ev, cs, sent, dequeued, woke>>
    /\ UNCHANGED mainVars
    /\ UNCHANGED <<busVars, pureVars>>

\* Queue.put_nowait (queue.py 15-19), called from a task other than the
\* consumer tasks.
Send ==
    /\ NoneRunning
    /\ Len(sent) < MaxSends
    /\ \E item \in Payloads :
        /\ q' = Append(q, item)
        /\ sent' = Append(sent, item)
    /\ ev' = TRUE
    /\ cs' = IF ev THEN cs ELSE Released(cs)
    /\ UNCHANGED <<radio, dequeued, woke>>
    /\ UNCHANGED mainVars
    /\ UNCHANGED <<busVars, pureVars>>

\* A consumer task is run for the first time, up to its call of get.
ConsumerStart ==
    /\ NoneRunning
    /\ \E c \in DOMAIN cs :
        /\ cs[c] = "new"
        /\ cs' = [cs EXCEPT ![c] = "running"]
    /\ UNCHANGED <<radio, q, ev, sent, dequeued, woke>>
    /\ UNCHANGED mainVars
    /\ UNCHANGED <<busVars, pureVars>>

\* Queue.get lines 23-27 once _ev.wait() has returned: the head is removed
\* and returned, and the task goes round its loop; popping an empty list
\* raises.
TakeHead(c, resumed) ==
    IF q = <<>>
    THEN /\ cs' = [cs EXCEPT ![c] = "IndexError"]
         /\ ev' = ClearIfEmpty(q, ev)
         /\ UNCHANGED <<q, dequeued, woke>>
    ELSE /\ q' = QueuePop(q).rest
         /\ dequeued' = Append(dequeued, QueuePop(q).item)
         /\ woke' = IF resumed THEN Append(woke, QueuePop(q).item) ELSE woke
         /\ ev' = ClearIfEmpty(QueuePop(q).rest, ev)
         /\ cs' = [cs EXCEPT ![c] = "running"]

\* Queue.get with the event set: _ev.wait() returns without suspending.
GetNow ==
    /\ \E c \in DOMAIN cs :
        /\ cs[c] = "running"
        /\ ev
        /\ TakeHead(c, FALSE)
    /\ UNCHANGED <<radio, sent>>
    /\ UNCHANGED mainVars
    /\ UNCHANGED <<busVars, pureVars>>

\* Queue.get with the event clear: the task suspends in _ev.wait() (line 22).
GetWait ==
    /\ \E c \in DOMAIN cs :
        /\ cs[c] = "running"
        /\ ~ev
        /\ cs' = [cs EXCEPT ![c] = "waiting"]
    /\ UNCHANGED <<radio, q, ev, sent, dequeued, woke>>
    /\ UNCHANGED mainVars
    /\ UNCHANGED <<busVars, pureVars>>

\* A task released by _ev.set() is run: _ev.wait() returns (it does not test
\* the event again) and get goes on with line 23.
GetResume ==
    /\ NoneRunning
    /\ \E c \in DOMAIN cs :
        /\ cs[c] = "ready"
        /\ TakeHead(c, TRUE)
    /\ UNCHANGED <<radio, sent>>
    /\ UNCHANGED mainVars
    /\ UNCHANGED <<busVars, pureVars>>

QueueNext == RadioConstruct \/ Send \/ ConsumerStart \/ GetNow \/ GetWait \/ GetResume

QueueSpec == QueueInit /\ [][QueueNext]_vars

\* The uasyncio scheduler runs every task that is ready: a task created is
\* started, a running task goes on to its next suspension point, a task
\* released by Event.set() is resumed.  put_nowait is called or not, as the
\* caller pleases.
LiveQueueSpec ==
    /\ QueueInit
    /\ [][QueueNext]_vars
    /\ WF_vars(ConsumerStart)
    /\ WF_vars(GetNow)
    /\ WF_vars(GetWait)
    /\ WF_vars(GetResume)

\* One queue with two tasks calling get.
RaceInit ==
    /\ MainIdle
    /\ radio = "none"
    /\ q = <<>>
    /\ ev = FALSE
    /\ cs = [c \in TwoConsumers |-> "new"]
    /\ sent = <<>>
    /\ dequeued = <<>>
    /\ woke = <<>>
    /\ BusIdle
    /\ PureIdle

RaceSpec == RaceInit /\ [][QueueNext]_vars

\* --------------------------------------------------------- register fields

\* Register contents used for the device's bytes.
ByteVals == {0, 90, 165}

\* x & y, x | y on naturals.
RECURSIVE BitAnd(_, _)
BitAnd(x, y) ==
    IF x = 0 \/ y = 0 THEN 0
    ELSE (x % 2) * (y % 2) + 2 * BitAnd(x \div 2, y \div 2)

RECURSIVE BitOr(_, _)
BitOr(x, y) ==
    IF x = 0 THEN y
    ELSE IF y = 0 THEN x
    ELSE ((x % 2) + (y % 2) - (x % 2) * (y % 2)) + 2 * BitOr(x \div 2, y \div 2)

\* x & ~y for naturals x, y.
BitClear(x, y) == x - BitAnd(x, y)

\* Constructor arguments.  kind "bit": ROBit/RWBit(register_address, bit,
\* register_width, lsb_first); kind "bits": ROBits/RWBits(num_bits,
\* register_address, lowest_bit, register_width, lsb_first, signed), with
\* lowest_bit in the component bit; kind "struct": ROUnaryStruct/UnaryStruct
\* (register_address, ">B").
Field(kind, addr, bit, nbits, width, lsb, signed) ==
    [kind |-> kind, addr |-> addr, bit |-> bit, nbits |-> nbits, width |-> width,
     lsb |-> lsb, signed |-> signed]

FieldConfigs ==
    {Field("bits", 8, b, n, w, l, sg) :
        b \in {0, 2, 9}, n \in {3, 8}, w \in {1, 2}, l \in BOOLEAN, sg \in BOOLEAN}
    \cup {Field("bit", 8, b, 1, w, l, FALSE) : b \in {0, 7, 8, 17}, w \in {1, 2}, l \in BOOLEAN}
    \cup {Field("struct", 8, 0, 8, 1, FALSE, FALSE)}

\* self.bit_mask: i2c_bits.py line 33, i2c_bit.py line 33.
BitMask(f) ==
    IF f.kind = "bit" THEN 2 ^ (f.bit % 8)
    ELSE (2 ^ f.nbits - 1) * 2 ^ f.bit

\* ROBits.__init__ lines 33-35: raise ValueError if the mask does not fit.
\* ROBit.__init__ and ROUnaryStruct.__init__ test nothing.
ConstructRaises(f) == f.kind = "bits" /\ BitMask(f) >= 2 ^ (f.width * 8)

\* self.sign_bit: i2c_bits.py line 41.
SignBit(f) == IF f.signed THEN 2 ^ (f.nbits - 1) ELSE 0

\* self.byte: i2c_bit.py line 36 (a Python index into self.buffer).
ByteIndex(f) == IF f.lsb THEN f.bit \div 8 + 1 ELSE f.width - f.bit \div 8

\* bytearray(1 + register_width) with buffer[0] = register_address.
NewBuffer(f) == <<f.addr>> \o [i \in 1..f.width |-> 0]

\* The n bytes the device returns for a read once its register pointer has
\* been written with p: the registers p, p + 1, ..., in bus order.
DevRead(d, p, n) == [i \in 1..n |-> d[p + i - 1]]

\* The device's bytes at the field's register, in bus order.
DevBytes(d, f) == DevRead(d, f.addr, f.width)

\* A mutant of AfterRead: the bytes read land in the field's buffer.
AfterReadInPlace(buf, data) == <<buf[1]>> \o data

\* i2c.readfrom_into(self.address, self.buffer[1:]): the slice of a bytearray
\* is a new bytearray, so the bytes read land in the copy and the buffer the
\* field keeps is what it was.
AfterRead(buf, data) == buf

\* The order in which get and set walk the buffer (Python indices):
\* range(len(buffer) - 1, 0, -1), reversed if not lsb_first.
Order(f) == IF f.lsb THEN [i \in 1..f.width |-> f.width + 1 - i] ELSE [i \in 1..f.width |-> i]

Reversed(o) == [i \in 1..Len(o) |-> o[Len(o) + 1 - i]]

\* for i in order: reg = (reg << 8) | self.buffer[i]
RECURSIVE Assemble(_, _, _)
Assemble(buf, o, reg) ==
    IF o = <<>> THEN reg ELSE Assemble(buf, Tail(o), reg * 256 + buf[Head(o) + 1])

\* for i in reversed(order): self.buffer[i] = reg & 0xFF; reg >>= 8
RECURSIVE Scatter(_, _, _)
Scatter(buf, o, reg) ==
    IF o = <<>> THEN buf
    ELSE Scatter([buf EXCEPT ![Head(o) + 1] = reg % 256], Tail(o), reg \div 256)

\* ROBits.get lines 46-57 on the buffer.
BitsValue(f, buf) ==
    LET reg == BitAnd(Assemble(buf, Order(f), 0), BitMask(f)) \div 2 ^ f.bit
    IN  IF BitAnd(reg, SignBit(f)) # 0 THEN reg - 2 * SignBit(f) ELSE reg

\* RWBits.set lines 77 and 80-90 on the buffer.  Python integers are unbounded;
\* only the low register_width * 8 bits of reg reach the buffer, so value is
\* taken modulo 2 ^ (register_width * 8).
BitsStore(f, buf, v) ==
    LET value == (v * 2 ^ f.bit) % 2 ^ (f.width * 8)
        reg == BitOr(BitClear(Assemble(buf, Order(f), 0), BitMask(f)), value)
    IN  Scatter(buf, Reversed(Order(f)), reg)

\* self.buffer[self.byte] with Python's indexing: a negative index counts
\* from the end; 0 when the index is out of range (IndexError).
PyIndex(f) ==
    LET n == f.width + 1
        i == IF ByteIndex(f) < 0 THEN ByteIndex(f) + n ELSE ByteIndex(f)
    IN  IF i >= 0 /\ i < n THEN i + 1 ELSE 0

\* ROBit.get line 41.
BitValue(f, buf) == IF BitAnd(buf[PyIndex(f)], BitMask(f)) # 0 THEN 1 ELSE 0

\* RWBit.set lines 58-61.
BitStore(f, buf, v) ==
    [buf EXCEPT ![PyIndex(f)] = IF v # 0 THEN BitOr(@, BitMask(f)) ELSE BitClear(@, BitMask(f))]

\* What get computes, from the buffer buf it ends up with.
GetValue(f, buf) ==
    IF f.kind = "bits" THEN BitsValue(f, buf)
    ELSE IF f.kind = "bit" THEN BitValue(f, buf)
    ELSE buf[2]

\* The buffer set writes back; struct: pack_into(">B", buf, 1, value).
SetBuffer(f, buf, v) ==
    IF f.kind = "bits" THEN BitsStore(f, buf, v)
    ELSE IF f.kind = "bit" THEN BitStore(f, buf, v)
    ELSE <<f.addr, v>>

\* The call indexes self.buffer out of range.
RaisesIndexError(f) == f.kind = "bit" /\ PyIndex(f) = 0

\* One bus operation.  addr: the device address passed (0 for the primitive
\* write, which passes none); data: the bytes written, or the bytes the device
\* returned.
BusOp(op, addr, data) == [op |-> op, addr |-> addr, data |-> data, ok |-> TRUE]

\* A mutant of Issued: the faulted operation is issued again and the call goes on.
IssuedWithRetry(planned, f) ==
    IF f = 0 THEN planned
    ELSE SubSeq(planned, 1, f - 1) \o <<[planned[f] EXCEPT !.ok = FALSE]>>
         \o SubSeq(planned, f, Len(planned))

\* The operations a call issues when its f-th operation raises OSError (f = 0:
\* none does): no get, set or driver method catches, so the call ends there.
Issued(planned, f) ==
    IF f = 0 THEN planned
    ELSE SubSeq(planned, 1, f - 1) \o <<[planned[f] EXCEPT !.ok = FALSE]>>

\* The exception that leaves a call whose f-th bus operation faulted.
Raised(f) == IF f = 0 THEN "ok" ELSE "OSError"

\* A mutant of ReadOps: the register address is written twice.
ReadOpsAddressTwice(f, d, buf) ==
    <<BusOp("writeto", f.addr, <<buf[1]>>), BusOp("writeto", f.addr, <<buf[1]>>),
      BusOp("readfrom_into", f.addr, DevRead(d, buf[1], f.width))>>

\* The address write and the data read that every get and every bit or
\* multi-bit set begins with (lines 44-45, 78-79 of i2c_bits.py; 39-40, 56-57
\* of i2c_bit.py; 33-34 of i2c_struct.py) on a field whose buffer is buf: the
\* register address is passed as the device address, and the byte written is
\* self.buffer[:1], the first byte of the buffer as it is now (the register
\* address, unless a set has stored into buffer[0]); the device returns the
\* bytes of the register that byte names.
ReadOps(f, d, buf) ==
    <<BusOp("writeto", f.addr, <<buf[1]>>),
      BusOp("readfrom_into", f.addr, DevRead(d, buf[1], f.width))>>

\* The device after i2c.write(buffer).  The primitive write carries no device
\* address; whether the bytes reach the device's register is the bus's doing.
DevAfterWrite(d, buf, delivered) ==
    IF delivered
    THEN [a \in DOMAIN d |-> IF a - buf[1] + 2 \in 2..Len(buf) THEN buf[a - buf[1] + 2] ELSE d[a]]
    ELSE d

BusFieldInit == MainIdle /\ QueueIdle /\ BusIdle /\ PureIdle

\* The registers a field at register_address addr can come to name: RWBit.set
\* on Python index 0 of the buffer ors bit 0 or bit 1 into the address byte,
\* and a read of two bytes goes one register further.
FieldRegisters(addr) == addr..(addr + 3)

\* A field is constructed; the device holds some bytes at its register and 0
\* in the registers after it.
Construct ==
    /\ fstate = "none"
    /\ bpc = "off"
    /\ \E f \in FieldConfigs :
        /\ fld' = f
        /\ fstate' = IF ConstructRaises(f) THEN "ValueError" ELSE "ok"
        /\ fbuf' = IF f.kind = "struct" \/ ConstructRaises(f) THEN <<>> ELSE NewBuffer(f)
        /\ dev' \in {d \in [FieldRegisters(f.addr) -> ByteVals] :
                        \A a \in FieldRegisters(f.addr) : a >= f.addr + f.width => d[a] = 0}
    /\ UNCHANGED <<ops, ret, bpc, battr, sleeping>>
    /\ UNCHANGED <<mainVars, queueVars, pureVars>>

\* ROBits.get, ROBit.get, ROUnaryStruct.get.
FieldGet ==
    /\ fstate = "ok"
    /\ \E f \in 0..2 :
        LET buf0 == IF fld.kind = "struct" THEN NewBuffer(fld) ELSE fbuf
            data == DevRead(dev, buf0[1], fld.width)
            buf1 == AfterRead(buf0, data)
            done == Issued(ReadOps(fld, dev, buf0), f)
            read == IF f = 0 THEN data ELSE <<>>
        IN  /\ ops' = done
            /\ fbuf' = IF fld.kind = "struct" THEN <<>> ELSE IF f = 0 THEN buf1 ELSE fbuf
            /\ ret' = IF f # 0
                      THEN [call |-> "get", status |-> Raised(f), value |-> 0, read |-> read]
                      ELSE IF RaisesIndexError(fld)
                      THEN [call |-> "get", status |-> "IndexError", value |-> 0, read |-> read]
                      ELSE [call |-> "get", status |-> "ok", value |-> GetValue(fld, buf1),
                            read |-> read]
    /\ UNCHANGED <<fstate, fld, dev, bpc, battr, sleeping>>
    /\ UNCHANGED <<mainVars, queueVars, pureVars>>

\* Values passed to set: for a bit False and True, for a multi-bit field 0,
\* the largest value of the field, one too large and -1, for the struct 0 and
\* 0x89; and the value the last get returned.
SetVals ==
    (IF fld.kind = "bit" THEN {0, 1}
     ELSE IF fld.kind = "bits" THEN {0, 2 ^ fld.nbits - 1, 2 ^ fld.nbits, -1}
     ELSE {0, 137})
    \cup (IF ret.call = "get" /\ ret.status = "ok" THEN {ret.value} ELSE {})

\* RWBits.set, RWBit.set: address write, data read, modify, write back.
FieldSet ==
    /\ fstate = "ok"
    /\ fld.kind # "struct"
    /\ \E v \in SetVals, f \in 0..3, delivered \in BOOLEAN :
        LET data == DevRead(dev, fbuf[1], fld.width)
            buf1 == AfterRead(fbuf, data)
            index == RaisesIndexError(fld)
            buf2 == IF index THEN buf1 ELSE SetBuffer(fld, buf1, v)
            planned == IF index THEN ReadOps(fld, dev, fbuf)
                       ELSE ReadOps(fld, dev, fbuf) \o <<BusOp("write", 0, buf2)>>
            read == IF f \in {1, 2} THEN <<>> ELSE data
        IN  /\ f <= Len(planned)
            /\ (delivered => f = 0 /\ ~index)
            /\ ops' = Issued(planned, f)
            /\ fbuf' = IF f \in {1, 2} THEN fbuf ELSE buf2
            /\ dev' = DevAfterWrite(dev, buf2, delivered)
            /\ ret' = [call |-> "set",
                       status |-> IF f # 0 THEN Raised(f) ELSE IF index THEN "IndexError" ELSE "ok",
                       value |-> v, read |-> read]
    /\ UNCHANGED <<fstate, fld, bpc, battr, sleeping>>
    /\ UNCHANGED <<mainVars, queueVars, pureVars>>

\* UnaryStruct.set: pack into a fresh buffer, write it; nothing is read.
StructSet ==
    /\ fstate = "ok"
    /\ fld.kind = "struct"
    /\ \E v \in SetVals, f \in 0..1, delivered \in BOOLEAN :
        LET buf == SetBuffer(fld, NewBuffer(fld), v)
        IN  /\ (delivered => f = 0)
            /\ ops' = Issued(<<BusOp("write", 0, buf)>>, f)
            /\ dev' = DevAfterWrite(dev, buf, delivered)
            /\ ret' = [call |-> "set", status |-> Raised(f), value |-> v, read |-> <<>>]
    /\ UNCHANGED <<fstate, fld, fbuf, bpc, battr, sleeping>>
    /\ UNCHANGED <<mainVars, queueVars, pureVars>>

\* ------------------------------------------------- tasks sharing the bus

\* Calls of a register field per task and run.
MaxCalls == 2

\* The tasks of TaskSpec, each with a field of its own on the one bus.
BusTasks == {1, 2}

\* Task 1 uses self._mode_bits = RWBits(i2c, 3, _DPS310_MEASCFG, 0), task 2
\* self._pressure_shiftbit = RWBit(i2c, _DPS310_CFGREG, 2) (barometer.py
\* lines 37 and 41).
TaskField(t) ==
    IF t = 1 THEN Field("bits", 8, 0, 3, 1, TRUE, FALSE)
    ELSE Field("bit", 9, 2, 1, 1, TRUE, FALSE)

\* A mutant of SuspensionPoints: set awaits between its read and its write.
SuspendAfterRead(call) == IF call = "set" THEN {2} ELSE {}

\* The numbers of bus operations after which the coroutine of a get or set
\* suspends: the bodies of get and set hold no await, and writeto,
\* readfrom_into and write are plain calls, so there is none.
SuspensionPoints(call) == {}

\* The bus operations of a call of task t on device d with buffer buf: set
\* is called with 1 (True).
CallOps(t, call, d, buf) ==
    IF call = "get" THEN ReadOps(TaskField(t), d, buf)
    ELSE ReadOps(TaskField(t), d, buf)
         \o <<BusOp("write", 0,
                     SetBuffer(TaskField(t),
                               AfterRead(buf, DevRead(d, buf[1], TaskField(t).width)), 1))>>

\* The number of operations issued when a call that has issued at of its len
\* operations runs to its next suspension point, or to its end.
SegmentEnd(call, at, len) ==
    LET later == {p \in SuspensionPoints(call) : p > at /\ p < len}
    IN  IF later = {} THEN len ELSE CHOOSE p \in later : \A x \in later : p <= x

\* A bus operation as issued by call number n of task t.
Tagged(o, t, n) ==
    [op |-> o.op, addr |-> o.addr, data |-> o.data, ok |-> o.ok, task |-> t, n |-> n]

TaskInit ==
    /\ MainIdle
    /\ PureIdle
    /\ radio = "none"
    /\ q = <<>>
    /\ ev = FALSE
    /\ sent = <<>>
    /\ dequeued = <<>>
    /\ woke = <<>>
    /\ fstate = "none"
    /\ fld = <<>>
    /\ fbuf = <<>>
    /\ \E b \in ByteVals : dev = [a \in {8, 9} |-> b]
    /\ ops = <<>>
    /\ ret = NoCall
    /\ bpc = "off"
    /\ battr = <<>>
    /\ sleeping = <<>>
    /\ cs = [t \in BusTasks |-> [call |-> "idle", at |-> 0, n |-> 0,
                                 buf |-> NewBuffer(TaskField(t))]]

\* The scheduler runs task t: the task calls get or set on its field, or goes
\* on with the call it is suspended in, up to the next suspension point.
TaskRun ==
    /\ \E t \in BusTasks, c \in {"get", "set"}, delivered \in BOOLEAN :
        LET me == cs[t]
            call == IF me.call = "idle" THEN c ELSE me.call
            n == IF me.call = "idle" THEN me.n + 1 ELSE me.n
            planned == CallOps(t, call, dev, me.buf)
            end == SegmentEnd(call, me.at, Len(planned))
            finished == end = Len(planned)
            written == finished /\ call = "set"
        IN  /\ me.call = "idle" => me.n < MaxCalls
            /\ me.call # "idle" => c = me.call
            /\ delivered => written
            /\ ops' = ops \o [i \in 1..(end - me.at) |-> Tagged(planned[me.at + i], t, n)]
            /\ dev' = IF written THEN DevAfterWrite(dev, planned[Len(planned)].data, delivered)
                      ELSE dev
            /\ cs' = [cs EXCEPT ![t] =
                            [call |-> IF finished THEN "idle" ELSE call,
                             at |-> IF finished THEN 0 ELSE end,
                             n |-> n,
                             buf |-> IF written THEN planned[Len(planned)].data ELSE me.buf]]
    /\ UNCHANGED <<fstate, fld, fbuf, ret, bpc, battr, sleeping>>
    /\ UNCHANGED <<radio, q, ev, sent, dequeued, woke>>
    /\ UNCHANGED <<mainVars, pureVars>>

TaskNext == TaskRun

TaskSpec == TaskInit /\ [][TaskNext]_vars

\* ---------------------------------------------------- coefficient decoding

\* A sign extension that extends nothing.
TwosComplementUnsigned(val, bits) == val

\* twos_complement(val, bits), barometer.py line 25.
TwosComplement(val, bits) ==
    IF BitAnd(val, 2 ^ (bits - 1)) # 0 THEN val - 2 ^ bits ELSE val

\* A low nibble taken from the high half of the byte.
LowNibbleShifted(b) == BitAnd(b \div 16, 15)

\* b & 0x0F of lines 180 and 185.
LowNibble(b) == BitAnd(b, 15)

\* (b >> 4) & 0x0F of lines 177 and 182.
HighNibble(b) == BitAnd(b \div 16, 15)

\* (hi << 8) | lo of lines 188-192.
Word(hi, lo) == BitOr(hi * 256, lo)

\* _read_calibration lines 177-192 on the list coeffs (Python coeffs[k] is
\* coeffs[k + 1]).
Coefficients(coeffs) ==
    [c0  |-> TwosComplement(BitOr(coeffs[1] * 16, HighNibble(coeffs[2])), 12),
     c1  |-> TwosComplement(BitOr(LowNibble(coeffs[2]) * 256, coeffs[3]), 12),
     c00 |-> TwosComplement(BitOr(BitOr(coeffs[4] * 4096, coeffs[5] * 16),
                                  HighNibble(coeffs[6])), 20),
     c10 |-> TwosComplement(BitOr(BitOr(LowNibble(coeffs[6]) * 65536, coeffs[7] * 256),
                                  coeffs[8]), 20),
     c01 |-> TwosComplement(Word(coeffs[9], coeffs[10]), 16),
     c11 |-> TwosComplement(Word(coeffs[11], coeffs[12]), 16),
     c20 |-> TwosComplement(Word(coeffs[13], coeffs[14]), 16),
     c21 |-> TwosComplement(Word(coeffs[15], coeffs[16]), 16),
     c30 |-> TwosComplement(Word(coeffs[17], coeffs[18]), 16)]

\* --------------------------------------------------------- barometer driver

\* _DPS310_DEFAULT_ADDRESS
DeviceAddress == 119

\* An attribute of the Barometer: still the register field object that
\* __init__ bound to it, or a plain value assigned over it.
FieldObject == [field |-> TRUE, val |-> 0]

Plain(v) == [field |-> FALSE, val |-> v]

\* The eight scale factors in ascending order.
OversampleScalefactorSorted ==
    <<253952, 516096, 524288, 1040384, 1572864, 2088960, 3670016, 7864320>>

\* self._oversample_scalefactor (lines 54-63), Python index i at position i + 1.
OversampleScalefactor ==
    <<524288, 1572864, 3670016, 7864320, 253952, 516096, 1040384, 2088960>>

\* self._sea_level_pressure = 1013.25 (hPa) of line 64, in hundredths of hPa.
SeaLevelPressure == 101325

\* The attributes after __init__ (lines 35-64); the scales (0) and the
\* coefficients c are not yet bound, the sea level pressure is 1013.25 hPa.  resets counts the calls of reset,
\* calibrated_in is the reset (its number among the calls) in which lines
\* 177-192 last assigned c, and finished the reset that last ran to its end.
AttrsConstructed ==
    [reset_register |-> FieldObject, reg0e |-> FieldObject, reg0f |-> FieldObject,
     reg62 |-> FieldObject, temp_measurement_src_bit |-> FieldObject,
     pressure_osbits |-> FieldObject, pressure_shiftbit |-> FieldObject,
     temp_osbits |-> FieldObject, temp_shiftbit |-> FieldObject,
     mode_bits |-> FieldObject, pressure_scale |-> 0, temp_scale |-> 0,
     sea_level_pressure |-> SeaLevelPressure,
     coeffs |-> <<>>, c |-> <<>>, resets |-> 0, calibrated_in |-> 0, finished |-> 0]

\* The device's registers: the pressure bytes 0x00-0x02 and the temperature
\* bytes 0x03-0x05, configuration 0x06, 0x07, 0x09 at their power-on value 0,
\* MEAS_CFG 0x08 holding meas, the calibration block 0x10-0x21, the
\* calibration source register 0x28 and the other bytes holding c.
BaroDevice(meas, c) ==
    [a \in (0..9) \cup (16..33) \cup {40} |->
        IF a \in {6, 7, 9} THEN 0 ELSE IF a = 8 THEN meas ELSE c]

\* self._raw_pressure = ROBits(i2c, 24, _DPS310_PRSB2, 0, 3, lsb_first=False)
RawPressure == Field("bits", 0, 0, 24, 3, FALSE, FALSE)

\* self._raw_temperature = ROBits(i2c, 24, _DPS310_TMPB2, 0, 3, lsb_first=False)
RawTemperature == Field("bits", 3, 0, 24, 3, FALSE, FALSE)

\* _read_calibration lines 168-175: one address write and one single-byte read
\* per offset, to the device address.
RECURSIVE CalibrationOps(_, _)
CalibrationOps(d, offset) ==
    IF offset = 18 THEN <<>>
    ELSE <<BusOp("writeto", DeviceAddress, <<16 + offset>>),
           BusOp("readfrom_into", DeviceAddress, <<d[16 + offset]>>)>>
         \o CalibrationOps(d, offset + 1)

\* coeffs[offset] = buffer[1], after readfrom_into(self.address, buffer[1:])
\* on buffer = bytearray(2) with buffer[0] = 0x10 + offset.
CalibrationBytes(d) ==
    [k \in 1..18 |-> AfterRead(<<16 + k - 1, 0>>, <<d[16 + k - 1]>>)[2]]

\* The bus operations of initialize() after the sleep of reset(): the
\* throwaway temperature get of _correct_temp (line 98), then the calibration
\* reads.  The assignments of lines 89-93, 102, 110 and 71-79 and the tests of
\* lines 105, 153, 159 and 163 issue none.
InitializeOps(d) ==
    ReadOps(RawTemperature, d, NewBuffer(RawTemperature)) \o CalibrationOps(d, 0)

\* The attributes b after _read_calibration lines 166-192 on device d, run by
\* reset number n.
Recalibrated(b, d, n) ==
    [b EXCEPT !.coeffs = CalibrationBytes(d),
              !.c = Coefficients(CalibrationBytes(d)),
              !.calibrated_in = n]

\* The attributes b after lines 104-110 of reset number n on device d: the
\* erratum values are assigned over the three fields (lines 89-93), the
\* coefficients are decoded, and line 110 binds the calibration source field
\* object.
AfterReset(b, d, n) ==
    [Recalibrated(b, d, n) EXCEPT !.reg0e = Plain(0), !.reg0f = Plain(0), !.reg62 = Plain(2),
                                  !.temp_measurement_src_bit = FieldObject,
                                  !.finished = n]

\* The attributes b after initialize() lines 69-79 on device d, its reset
\* being number n.
AfterInitialize(b, d, n) ==
    [AfterReset(b, d, n) EXCEPT !.pressure_osbits = Plain(6),
                                !.pressure_shiftbit = Plain(1),
                                !.pressure_scale = OversampleScalefactor[6 + 1],
                                !.temp_osbits = Plain(6),
                                !.temp_scale = OversampleScalefactor[6 + 1],
                                !.temp_shiftbit = Plain(1),
                                !.mode_bits = Plain(7)]

\* What get of the read-only field f returns on device d: the field's buffer
\* is the one __init__ made, no set ever stores into it.
Reading(f, d) == GetValue(f, AfterRead(NewBuffer(f), DevBytes(d, f)))

\* The bus operations of pressure(): the temperature get of line 115, then the
\* pressure get of line 118.
PressureOps(d) ==
    ReadOps(RawTemperature, d, NewBuffer(RawTemperature))
    \o ReadOps(RawPressure, d, NewBuffer(RawPressure))

\* a / b of lines 121-122 and 130, where the quotient is a whole number.
Quotient(a, b) == CASE a % b = 0 -> a \div b

\* pres_calc of lines 115-128, from the attributes b on device d.
PresCalc(b, d) ==
    LET raw_temperature == TwosComplement(Reading(RawTemperature, d), 24)
        raw_pressure == TwosComplement(Reading(RawPressure, d), 24)
        scaled_rawtemp == Quotient(raw_temperature, b.temp_scale)
        scaled_rawpres == Quotient(raw_pressure, b.pressure_scale)
    IN  b.c.c00
        + scaled_rawpres * (b.c.c10 + scaled_rawpres * (b.c.c20 + scaled_rawpres * b.c.c30))
        + scaled_rawtemp * (b.c.c01 + scaled_rawpres * (b.c.c11 + scaled_rawpres * b.c.c21))

\* pressure() line 130, pres_calc / 100 hPa, in hundredths of hPa.
Pressure(b, d) == PresCalc(b, d)

\* altitude() line 137, 44330 * (1.0 - (pressure / sea_level) ** 0.1903), in
\* metres, for the pressure p and the sea level pressure s # 0, at the
\* pressures where the power is a whole number.
Altitude(p, s) == CASE p = 0 -> 44330 [] p = s -> 0

\* self._temp_scale is not bound (initialize has not run): line 121 raises
\* AttributeError.
ScaleUnbound(b) == b.temp_scale = 0

\* How a call of pressure() or altitude() ends when its f-th bus operation
\* faults (f = 0: none does) on a Barometer with attributes b.
PressureStatus(b, f) ==
    IF f # 0 THEN Raised(f) ELSE IF ScaleUnbound(b) THEN "AttributeError" ELSE "ok"

\* How a call of altitude() ends when the f-th bus operation of its pressure()
\* faults (f = 0: none does): as pressure() ends, and when pressure() has
\* returned the division of line 137 by a sea level pressure of 0 raises
\* ZeroDivisionError.
AltitudeStatus(b, f) ==
    IF PressureStatus(b, f) # "ok" THEN PressureStatus(b, f)
    ELSE IF b.sea_level_pressure = 0 THEN "ZeroDivisionError" ELSE "ok"

\* Values assigned to sea_level_pressure, in hundredths of hPa: 0, the lower
\* end of the typical range 980 - 1030 hPa, and the initial value.
SeaLevels == {0, 98000, SeaLevelPressure}

\* Values of MEAS_CFG (0x08) on the device: no ready bit set, all four set.
MeasVals == {0, 240}

\* A Barometer has been made.  The driver keeps no state flag and takes no
\* lock: every method can be called on it at any time, also while a reset of
\* another task sleeps and after a reset was ended by a bus fault.
BaroMade == bpc # "off"

\* Barometer.__init__ (lines 32-64): the fields are made, no bus operation
\* is issued.  The device holds some bytes.
BaroConstruct ==
    /\ fstate = "none"
    /\ bpc = "off"
    /\ \E meas \in MeasVals, c \in ByteVals : dev' = BaroDevice(meas, c)
    /\ battr' = AttrsConstructed
    /\ bpc' = "new"
    /\ UNCHANGED <<fstate, fld, fbuf, ops, ret, sleeping>>
    /\ UNCHANGED <<mainVars, queueVars, pureVars>>

\* reset() lines 102-104, called on its own or by initialize (line 69):
\* 0x89 is assigned over self._reset_register and the call suspends in
\* uasyncio.sleep(0.010), behind the calls already sleeping there.
StartReset(call) ==
    /\ BaroMade
    /\ battr.resets < MaxResets
    /\ battr' = [battr EXCEPT !.reset_register = Plain(137), !.resets = @ + 1]
    /\ sleeping' = Append(sleeping, [call |-> call, n |-> battr.resets + 1])
    /\ bpc' = "sleep10"
    /\ ops' = <<>>
    /\ ret' = [call |-> call, status |-> "none", value |-> 0, read |-> <<>>]
    /\ UNCHANGED <<fstate, fld, fbuf, dev>>
    /\ UNCHANGED <<mainVars, queueVars, pureVars>>

\* initialize() is called.
BaroInitialize == StartReset("initialize")

\* reset() is called on its own.
BaroReset == StartReset("reset")

\* The call whose sleep ends first (equal sleeps end in the order they
\* began) is resumed and runs to its end: reset(), or the initialize() that
\* called it, has no further suspension point (the field objects tested at
\* lines 105, 153, 159 and 163 are true and are not False, so no poll loop
\* sleeps).  reset() on its own leaves lines 71-79 undone.
BaroResume ==
    /\ sleeping # <<>>
    /\ LET me == Head(sleeping)
           planned == InitializeOps(dev)
           faulted == [battr EXCEPT !.reg0e = Plain(0), !.reg0f = Plain(0), !.reg62 = Plain(2)]
           done == IF me.call = "initialize" THEN AfterInitialize(battr, dev, me.n)
                   ELSE AfterReset(battr, dev, me.n)
       IN  \E f \in 0..Len(planned) :
            /\ ops' = Issued(planned, f)
            /\ ret' = [call |-> me.call, status |-> Raised(f), value |-> 0, read |-> <<>>]
            /\ bpc' = IF f # 0 THEN "OSError"
                      ELSE IF me.call = "initialize" \/ ~ScaleUnbound(battr) THEN "initialized"
                      ELSE "reset"
            /\ battr' = IF f # 0 THEN faulted ELSE done
    /\ sleeping' = Tail(sleeping)
    /\ UNCHANGED <<fstate, fld, fbuf, dev>>
    /\ UNCHANGED <<mainVars, queueVars, pureVars>>

\* wait_temperature_ready() or wait_pressure_ready() called on its own: the
\* field object tested at line 153 or 159 is not False, so the call returns
\* at once, with no bus operation and no suspension.
BaroWaitReady ==
    /\ BaroMade
    /\ \E w \in {"wait_temperature_ready", "wait_pressure_ready"} :
        ret' = [call |-> w, status |-> "ok", value |-> 0, read |-> <<>>]
    /\ ops' = <<>>
    /\ UNCHANGED <<fstate, fld, fbuf, dev, bpc, battr, sleeping>>
    /\ UNCHANGED <<mainVars, queueVars, pureVars>>

\* pressure() (lines 112-130): two gets, then the arithmetic; the value is in
\* hundredths of hPa.
BaroPressure ==
    /\ BaroMade
    /\ \E f \in 0..Len(PressureOps(dev)) :
        /\ ops' = Issued(PressureOps(dev), f)
        /\ ret' = [call |-> "pressure", status |-> PressureStatus(battr, f),
                   value |-> IF PressureStatus(battr, f) = "ok" THEN Pressure(battr, dev) ELSE 0,
                   read |-> <<>>]
    /\ UNCHANGED <<fstate, fld, fbuf, dev, bpc, battr, sleeping>>
    /\ UNCHANGED <<mainVars, queueVars, pureVars>>

\* The sea_level_pressure setter (lines 146-148): the value is stored, no
\* bus operation is issued and nothing is tested.
BaroSetSeaLevel ==
    /\ BaroMade
    /\ \E value \in SeaLevels : battr' = [battr EXCEPT !.sea_level_pressure = value]
    /\ ops' = <<>>
    /\ ret' = [call |-> "sea_level_pressure", status |-> "ok", value |-> 0, read |-> <<>>]
    /\ UNCHANGED <<fstate, fld, fbuf, dev, bpc, sleeping>>
    /\ UNCHANGED <<mainVars, queueVars, pureVars>>

\* altitude() (lines 132-137): pressure(), then the barometric formula with
\* the sea level pressure stored; the value is in metres.
BaroAltitude ==
    /\ BaroMade
    /\ \E f \in 0..Len(PressureOps(dev)) :
        /\ ops' = Issued(PressureOps(dev), f)
        /\ ret' = [call |-> "altitude", status |-> AltitudeStatus(battr, f),
                   value |-> IF AltitudeStatus(battr, f) = "ok"
                             THEN Altitude(Pressure(battr, dev), battr.sea_level_pressure)
                             ELSE 0,
                   read |-> <<>>]
    /\ UNCHANGED <<fstate, fld, fbuf, dev, bpc, battr, sleeping>>
    /\ UNCHANGED <<mainVars, queueVars, pureVars>>

BusNext ==
    \/ Construct \/ FieldGet \/ FieldSet \/ StructSet
    \/ BaroConstruct \/ BaroInitialize \/ BaroReset \/ BaroResume \/ BaroWaitReady
    \/ BaroPressure \/ BaroSetSeaLevel \/ BaroAltitude

BusSpec == BusFieldInit /\ [][BusNext]_vars

\* ------------------------------------------------------ decoding functions

\* Byte values of a calibration buffer.
CalVals == {0, 8, 127, 128, 165, 255}

\* 18-byte calibration buffers: two adjacent bytes drawn freely over a
\* background of 0x00 or 0xFF.
CalibrationBuffers ==
    {[k \in 1..18 |-> IF k = p THEN a ELSE IF k = (p % 18) + 1 THEN b ELSE base] :
        p \in 1..18, a \in CalVals, b \in CalVals, base \in {0, 255}}

\* The widths twos_complement and signed fields are used at.
SignWidths == {12, 16, 20, 24}

\* Values of a signed field of width w: the ends of the range, the
\* neighbourhood of 0 and the quarter points.
SignedSamples(w) ==
    {0 - 2 ^ (w - 1), 1 - 2 ^ (w - 1), 0 - 2 ^ (w - 2), -2, -1, 0, 1, 2,
     2 ^ (w - 2), 2 ^ (w - 1) - 2, 2 ^ (w - 1) - 1}

PureArgs ==
    {[kind |-> "calibration", buf |-> b] : b \in CalibrationBuffers}
    \cup {[kind |-> "signed", w |-> w, v |-> v, lsb |-> l] :
            w \in SignWidths, v \in UNION {SignedSamples(x) : x \in SignWidths}, l \in BOOLEAN}

\* The three data bytes a device returns for the unsigned value u of a
\* three-byte register, in bus order.
RegisterBytes(u, lsb) ==
    IF lsb THEN <<u % 256, (u \div 256) % 256, u \div 65536>>
    ELSE <<u \div 65536, (u \div 256) % 256, u % 256>>

\* ROBits(i2c, w, 0, 0, 3, lsb_first, signed=True)
SignedField(w, lsb) == Field("bits", 0, 0, w, 3, lsb, TRUE)

PureInit ==
    /\ MainIdle
    /\ QueueIdle
    /\ BusIdle
    /\ arg \in {a \in PureArgs : a.kind = "signed" => a.v \in SignedSamples(a.w)}
    /\ res = <<>>

\* The coefficient unpacking of _read_calibration applied to the buffer.
Unpack ==
    /\ arg.kind = "calibration"
    /\ res = <<>>
    /\ res' = [call |-> "unpack", value |-> Coefficients(arg.buf)]
    /\ UNCHANGED <<arg, mainVars, queueVars, busVars>>

\* twos_complement applied to the unsigned encoding of v over w bits.
CallTwosComplement ==
    /\ arg.kind = "signed"
    /\ res = <<>>
    /\ res' = [call |-> "twos_complement",
               value |-> TwosComplement(arg.v % 2 ^ arg.w, arg.w)]
    /\ UNCHANGED <<arg, mainVars, queueVars, busVars>>

\* Lines 46-57 of ROBits.get of a signed field of w bits, on a buffer that
\* holds the unsigned encoding of v.
GetBitsSigned ==
    /\ arg.kind = "signed"
    /\ res = <<>>
    /\ res' = [call |-> "get_bits",
               value |-> BitsValue(SignedField(arg.w, arg.lsb),
                                   <<0>> \o RegisterBytes(arg.v % 2 ^ arg.w, arg.lsb))]
    /\ UNCHANGED <<arg, mainVars, queueVars, busVars>>

PureNext == Unpack \/ CallTwosComplement \/ GetBitsSigned

PureSpec == PureInit /\ [][PureNext]_vars

\* -------------------------------------------------------------- flight loop

\* The bus and the Barometer once Barometer(machine.I2C(1)) (main.py line 15)
\* has returned, on a device whose MEAS_CFG holds meas and whose other bytes
\* hold c: no bus operation has been issued.
BaroNew(meas, c) ==
    /\ fstate = "none"
    /\ fld = <<>>
    /\ fbuf = <<>>
    /\ dev = BaroDevice(meas, c)
    /\ ops = <<>>
    /\ ret = NoCall
    /\ bpc = "new"
    /\ battr = AttrsConstructed
    /\ sleeping = <<>>

\* Module level (lines 13-15) and main() before line 32.  Pin(46, Pin.OUT) is
\* given no initial value, so the pin level is whatever the port had; the
\* Barometer has been constructed.
Init ==
    /\ pc = "burst1"
    /\ buzzer \in {0, 1}
    /\ bz = "new"
    /\ pulses = 0
    /\ accels = <<>>
    /\ hit_apogee = FALSE
    /\ launched = FALSE
    /\ max_accel = 0
    /\ max_height = 0
    /\ launch_time = 0
    /\ log = <<>>
    /\ now = 0
    /\ zs = <<>>
    /\ hs = <<>>
    /\ yields = 0
    /\ QueueIdle
    /\ \E meas \in MeasVals, c \in ByteVals : BaroNew(meas, c)
    /\ PureIdle

Next == BuzzerOff \/ BuzzerOn \/ Deadline

Spec == Init /\ [][Next]_vars

\* The bus and the Barometer once barometer.initialize() (line 39) has
\* returned, on a device whose MEAS_CFG holds meas and whose other bytes hold c.
BaroInitialized(meas, c) ==
    /\ fstate = "none"
    /\ fld = <<>>
    /\ fbuf = <<>>
    /\ dev = BaroDevice(meas, c)
    /\ ops = InitializeOps(BaroDevice(meas, c))
    /\ ret = [call |-> "initialize", status |-> "ok", value |-> 0, read |-> <<>>]
    /\ bpc = "initialized"
    /\ battr = AfterInitialize([AttrsConstructed EXCEPT !.reset_register = Plain(137),
                                                        !.resets = 1],
                               BaroDevice(meas, c), 1)
    /\ sleeping = <<>>

\* main() at line 44, first iteration: lines 35-43 have run.
FlightInit ==
    /\ pc = "loop"
    /\ buzzer \in {0, 1}
    /\ bz = "none"
    /\ pulses = 0
    /\ accels = <<>>
    /\ hit_apogee = FALSE
    /\ launched = FALSE
    /\ max_accel = 0
    /\ max_height = 0
    /\ launch_time = 0
    /\ log = <<Line("start", 0, 0)>>
    /\ now = 0
    /\ zs = <<>>
    /\ hs = <<>>
    /\ yields = 0
    /\ QueueIdle
    /\ \E c \in ByteVals : BaroInitialized(192, c)
    /\ PureIdle

\* The suspension points main() passes in one iteration of the while True:
\* the await of line 48 runs altitude(), pressure() and the two field gets,
\* which hold no suspension point, through without yielding to the scheduler;
\* the wait_for of line 63, in the landing branch, suspends main().
TickSuspensions(landed) == IF landed THEN 1 ELSE 0

\* One iteration of the while True of main(), lines 45-67; the altitude of
\* line 48 is what barometer.altitude() returns, after its bus operations.
Tick ==
    /\ pc = "loop"
    /\ Len(zs) < MaxTicks
    /\ \E z \in RawZ :
        LET accel_z == NormalisedZ(z)
            height == Altitude(Pressure(battr, dev), battr.sea_level_pressure)
            t == now + 1
            ma == RunningMax(max_accel, accel_z)
            window == DequeAppend(accels, accel_z)
            rolling_total == Sum(window)
            mh == RunningMax(max_height, height)
            launch == LaunchTest(rolling_total)
            lt == IF launch THEN t ELSE launch_time
            log1 == IF launch THEN Append(log, Line("L", 0, 0)) ELSE log
            d == Descent(rolling_total, hit_apogee, t, lt, ma, mh)
        IN  /\ max_accel' = ma
            /\ accels' = window
            /\ max_height' = mh
            /\ launched' = (launched \/ launch)
            /\ launch_time' = lt
            /\ log' = log1 \o d.lines
            /\ hit_apogee' = d.hit
            /\ pc' = AfterTick(d.landed)
            /\ bz' = IF AfterTick(d.landed) = "terminal" THEN "new" ELSE bz
            /\ pulses' = IF AfterTick(d.landed) = "terminal" THEN 0 ELSE pulses
            /\ now' = t
            /\ zs' = Append(zs, accel_z)
            /\ hs' = Append(hs, height)
            /\ yields' = yields + TickSuspensions(d.landed)
            /\ ops' = PressureOps(dev)
            /\ ret' = [call |-> "altitude", status |-> "ok", value |-> height, read |-> <<>>]
            /\ UNCHANGED buzzer
    /\ UNCHANGED <<fstate, fld, fbuf, dev, bpc, battr, sleeping>>
    /\ UNCHANGED <<queueVars, pureVars>>

\* An iteration of the while True whose altitude read faults: line 45-47 have
\* run, barometer.altitude() (line 48) raises the OSError of one of its bus
\* operations, and main(), which has no handler, ends with it; nothing is
\* written.
TickFault ==
    /\ pc = "loop"
    /\ Len(zs) < MaxTicks
    /\ \E z \in RawZ :
        /\ max_accel' = RunningMax(max_accel, NormalisedZ(z))
        /\ zs' = Append(zs, NormalisedZ(z))
    /\ \E f \in 1..Len(PressureOps(dev)) :
        /\ ops' = Issued(PressureOps(dev), f)
        /\ ret' = [call |-> "altitude", status |-> PressureStatus(battr, f), value |-> 0,
                   read |-> <<>>]
    /\ pc' = "fault"
    /\ UNCHANGED <<buzzer, bz, pulses, accels, hit_apogee, launched, max_height,
                   launch_time, log, now, hs, yields>>
    /\ UNCHANGED <<fstate, fld, fbuf, dev, bpc, battr, sleeping>>
    /\ UNCHANGED <<queueVars, pureVars>>

FlightNext == Tick \/ TickFault \/ BuzzerOff \/ BuzzerOn \/ Deadline

FlightSpec == FlightInit /\ [][FlightNext]_vars

\* The flight loop under the uasyncio scheduler: main() goes on ticking, the
\* start_buzzer task is run when its sleep ends, and the timer of wait_for
\* fires when its time has come.
LiveFlightSpec ==
    /\ FlightInit
    /\ [][FlightNext]_vars
    /\ WF_vars(BuzzerOff)
    /\ WF_vars(Deadline)

\* ------------------------------------------------------------ flight phase

\* The flight phase, read off the loop's own state: the loop has stopped
\* (Landed), hit_apogee is set (Apogee), launched is bound (Launched).
Phase ==
    IF pc \in {"terminal", "raised"} /\ Count("H", log) > 0 THEN "Landed"
    ELSE IF hit_apogee THEN "Apogee"
    ELSE IF launched THEN "Launched"
    ELSE "Idle"

Rank(p) == CASE p = "Idle" -> 0 [] p = "Launched" -> 1 [] p = "Apogee" -> 2 [] p = "Landed" -> 3

\* The greatest element of a non-empty set of integers.
MaxOf(S) == CHOOSE m \in S : \A x \in S : x <= m

Range(s) == {s[i] : i \in DOMAIN s}

\* Phase markers ("L", "A", "H") in a log.
Markers(l) == Count("L", l) + Count("A", l) + Count("H", l)

\* ------------------------------------------------------------------ claims

\* C1: the phase only moves forward through Idle, Launched, Apogee, Landed,
\* and no launch event (the "L" line, launch_time) is taken on a tick after
\* apogee has been marked.
C1_ForwardOnly ==
    [][/\ Rank(Phase') >= Rank(Phase)
       /\ hit_apogee => /\ Count("L", log') = Count("L", log)
                        /\ launch_time' = launch_time]_vars

\* C2: the launch marker "L" is appended to the log at most once per run.
C2_LaunchOnce == Count("L", log) <= 1

\* C3: a tick whose phase is still Idle (no launch detected) logs no apogee
\* marker and no landing marker and does not mark apogee.
C3_ApogeeOnlyWhenLaunched ==
    [][~launched => /\ Count("A", log') = Count("A", log)
                    /\ Count("H", log') = Count("H", log)
                    /\ hit_apogee' = hit_apogee]_vars

\* C4: Landed is terminal: "H" is logged at most once, and once it is logged
\* no further tick is taken, no further sample is read and no further line is
\* logged.
C4_LandedTerminal ==
    [][/\ Count("H", log') <= 1
       /\ Count("H", log) > 0 => /\ log' = log
                                 /\ zs' = zs
                                 /\ hs' = hs
                                 /\ pc' # "loop"]_vars

\* A run that has landed and whose terminal burst has been abandoned.
C4_Witness ==
    /\ Count("H", log) = 1
    /\ Count("L", log) >= 1
    /\ pc = "raised"
    /\ pulses >= 2

\* C5: every tick takes at most one phase transition (a tick reaches the
\* transition tests once its altitude has been read): at most one marker is
\* logged per tick, the tick that marks apogee does not mark landing, and
\* landing is marked on the first later tick whose rolling sum is < 0.
C5_OneTransitionPerTick ==
    [][hs' # hs =>
        /\ Markers(log') <= Markers(log) + 1
        /\ ~hit_apogee => Count("H", log') = Count("H", log)
        /\ (hit_apogee /\ Sum(accels') < 0) => Count("H", log') = Count("H", log) + 1
        /\ (hit_apogee /\ Sum(accels') >= 0) => Count("H", log') = Count("H", log)]_vars

\* Apogee marked on one tick, a tick whose rolling sum is not < 0 after it,
\* landing marked on a later tick (launch_time is 0 throughout, so the elapsed
\* times of the two markers are their ticks).
C5_Witness ==
    /\ Count("L", log) = 0
    /\ \E i, j \in DOMAIN log :
          /\ log[i].tag = "A"
          /\ log[j].tag = "H"
          /\ log[j].a >= log[i].a + 2

\* C6: launch_time is recorded on the tick that takes Idle -> Launched and is
\* left unchanged by every later tick.
C6_LaunchTimeKept == [][launched => launch_time' = launch_time]_vars

\* C7: after every tick, in every phase, max_accel is the maximum of all acceleration
\* samples so far and max_height the maximum of all altitude samples so far.
C7_TrueMaxima ==
    /\ zs # <<>> => max_accel = MaxOf(Range(zs))
    /\ hs # <<>> => max_height = MaxOf(Range(hs))

\* C8: launch is declared only when the window holds three samples, so not on
\* the first or second tick of the loop.
C8_LaunchNeedsThreeSamples == Count("L", log) > 0 => Len(zs) >= 3

\* C9: once a bounded buzzer task has been cancelled at its deadline the
\* buzzer pin is off.
C9_PinOffAfterCancel == bz = "cancelled" => buzzer = 0

\* C10: when a bounded buzzer burst is abandoned at its deadline the
\* bounded-wait call returns normally: no error ends main.
C10_WaitReturnsNormally == bz = "cancelled" => pc # "raised"

\* C11: main performs the 3 s burst, the pre-arm delay, the 5 s burst and the
\* barometer initialization in order and then enters the tick loop: main does
\* not end before "Starting the main loop" has been written.
C11_LoopEntered == pc \in {"raised", "fault"} => Count("start", log) = 1

\* s is an initial segment of t.
IsPrefix(s, t) == Len(s) <= Len(t) /\ \A i \in DOMAIN s : s[i] = t[i]

\* C12: the items returned by dequeue are, in order, an initial segment of
\* the items enqueued: none reordered, none returned twice, none skipped.
C12_Fifo == IsPrefix(dequeued, sent)

\* Two different payloads have been returned while a third is still queued.
C12_Witness ==
    /\ Len(dequeued) >= 2
    /\ dequeued[1] # dequeued[2]
    /\ q # <<>>

\* C13: a dequeue issued on an empty sequence suspends, stays suspended until
\* an enqueue happens, and then returns the item of that enqueue; no dequeue
\* returns while the sequence is empty.
C13_SuspendsUntilEnqueue ==
    [][/\ (cs[1] = "running" /\ q = <<>>) => (cs'[1] = "waiting" /\ dequeued' = dequeued)
       /\ cs[1] = "waiting" => /\ Len(dequeued) = Len(sent)
                               /\ dequeued' = dequeued
                               /\ cs'[1] # "waiting" => (cs'[1] = "ready" /\ Len(sent') = Len(sent) + 1)
       /\ (cs[1] = "ready" /\ cs'[1] # "ready") =>
              dequeued' = Append(dequeued, sent[Len(dequeued) + 1])
       /\ dequeued' # dequeued => q # <<>>]_vars

\* A dequeue that suspended on the empty sequence has returned the item
\* enqueued afterwards, after an earlier dequeue had returned without
\* suspending.
C13_Witness ==
    /\ Len(woke) >= 1
    /\ Len(dequeued) > Len(woke)
    /\ woke[Len(woke)] = sent[Len(sent)]
    /\ q = <<>>

\* The device's register of field f as one integer, assembled in the field's
\* byte order.
DevReg(f, d) == Assemble(<<f.addr>> \o DevBytes(d, f), Order(f), 0)

\* The mask of field f within that integer.
RegMask(f) == IF f.kind = "bit" THEN 2 ^ f.bit ELSE BitMask(f)

\* Field f lies within its register.
Fits(f) == RegMask(f) < 2 ^ (f.width * 8)

\* C14: the value a get returns is computed from the register bytes the
\* device returned in that call's bus read.
C14_GetUsesBytesRead ==
    (ret.call = "get" /\ ret.status = "ok")
        => ret.value = GetValue(fld, <<fld.addr>> \o ret.read)

\* C15: after a set on a bit or multi-bit field the device register is what
\* it was with the field's bits replaced by the value set: the bits outside
\* the mask keep their device value.
C15_SetIsReadModifyWrite ==
    [][(ret'.call = "set" /\ ret'.status = "ok" /\ fld.kind # "struct" /\ Fits(fld)) =>
        /\ BitClear(DevReg(fld, dev'), RegMask(fld)) = BitClear(DevReg(fld, dev), RegMask(fld))
        /\ BitAnd(DevReg(fld, dev'), RegMask(fld))
             = BitAnd((ret'.value * 2 ^ fld.bit) % 2 ^ (fld.width * 8), RegMask(fld))]_vars

\* C16: for a multi-bit field that fits its register, a set of the value the
\* preceding get returned leaves the device register unchanged.
C16_SetOfGetIsIdentity ==
    [][(/\ ret.call = "get" /\ ret.status = "ok"
        /\ fld.kind = "bits" /\ Fits(fld)
        /\ ret'.call = "set" /\ ret'.status = "ok"
        /\ ret'.value = ret.value) => dev' = dev]_vars

\* C17: a bit or multi-bit field that does not fit its register fails at
\* construction and issues no bus operation; a constructed field addresses
\* only data bytes of its buffer.
C17_UnfitFailsAtConstruction ==
    (fstate \in {"ok", "ValueError"} /\ fld.kind # "struct") =>
        IF Fits(fld)
        THEN fstate = "ok" /\ ret.status # "IndexError"
        ELSE fstate = "ValueError" /\ ops = <<>>

\* C18: a bus operation that faults is the last one its call issues, and the
\* call ends with that fault: nothing is retried and nothing swallowed, in a
\* register field call and in a driver call.
C18_FaultPropagates ==
    \A i \in DOMAIN ops :
        ~ops[i].ok => /\ i = Len(ops)
                      /\ ret.status = "OSError"
                      /\ ret.call \in {"initialize", "reset"} => bpc = "OSError"

\* A calibration byte read of initialize faulted after earlier operations
\* had succeeded.
C18_Witness ==
    /\ bpc = "OSError"
    /\ Len(ops) >= 4
    /\ ops[Len(ops)].op = "readfrom_into"
    /\ ops[Len(ops)].addr = DeviceAddress
    /\ ~ops[Len(ops)].ok
    /\ ops[Len(ops) - 1].ok

\* C19: a fault that stops the flight loop has been recorded as a line of the
\* log before the loop stops.
C19_FaultLogged == pc = "fault" => Count("fault", log) > 0

\* C20: when initialize completes the device holds 6 in the pressure
\* oversampling field (0x06 bits 0-3), 6 in the temperature oversampling
\* field (0x07 bits 0-3), both result-shift bits (0x09 bits 2 and 3) set and
\* 7 in the mode field (0x08 bits 0-2).
C20_InitializeConfiguresDevice ==
    bpc = "initialized" =>
        /\ BitAnd(dev[6], 15) = 6
        /\ BitAnd(dev[7], 15) = 6
        /\ BitAnd(dev[9], 12) = 12
        /\ BitAnd(dev[8], 7) = 7

\* Bit n (0 the most significant bit of the first byte) of buffer buf.
BufferBit(buf, n) == (buf[n \div 8 + 1] \div 2 ^ (7 - (n % 8))) % 2

\* The unsigned value of the w bits of buf from bit start on, most
\* significant first.
RECURSIVE BitString(_, _, _)
BitString(buf, start, w) ==
    IF w = 0 THEN 0
    ELSE 2 * BitString(buf, start, w - 1) + BufferBit(buf, start + w - 1)

\* The integer whose two's-complement encoding over w bits is u.
Signed(u, w) == IF u >= 2 ^ (w - 1) THEN u - 2 ^ w ELSE u

\* The coefficients in buffer order, with width and first bit.
Layout ==
    <<[name |-> "c0", w |-> 12, at |-> 0], [name |-> "c1", w |-> 12, at |-> 12],
      [name |-> "c00", w |-> 20, at |-> 24], [name |-> "c10", w |-> 20, at |-> 44],
      [name |-> "c01", w |-> 16, at |-> 64], [name |-> "c11", w |-> 16, at |-> 80],
      [name |-> "c20", w |-> 16, at |-> 96], [name |-> "c21", w |-> 16, at |-> 112],
      [name |-> "c30", w |-> 16, at |-> 128]>>

\* C25: the nine decoded coefficients are the two's-complement values of the
\* consecutive bit strings of width 12, 12, 20, 20, 16, 16, 16, 16, 16 of the
\* 18-byte buffer, most significant bit first; each lies in the range of its
\* width and the strings are consecutive, so no bit is used twice.
C25_CoefficientsAreBitStrings ==
    (res # <<>> /\ res.call = "unpack") =>
        \A i \in DOMAIN Layout :
            LET l == Layout[i]
                c == res.value[l.name]
            IN  /\ c = Signed(BitString(arg.buf, l.at, l.w), l.w)
                /\ c >= 0 - 2 ^ (l.w - 1)
                /\ c <= 2 ^ (l.w - 1) - 1
                /\ l.at = (IF i = 1 THEN 0 ELSE Layout[i - 1].at + Layout[i - 1].w)
                /\ (i = Len(Layout) => l.at + l.w = 18 * 8)

\* A buffer whose bytes 5 and 6 (across the c00 / c10 nibble boundary) are
\* 0x80 and 0xA5 over a background of 0xFF has been unpacked: c00 is
\* negative and c10 positive.
C25_Witness ==
    /\ res # <<>>
    /\ res.call = "unpack"
    /\ arg.buf[6] = 165
    /\ arg.buf[5] = 128
    /\ arg.buf[1] = 255
    /\ res.value.c00 < 0
    /\ res.value.c10 > 0
    /\ res.value.c0 = -1

\* C26: for every width w in {12, 16, 20, 24} and every v in
\* [-(2^(w-1)), 2^(w-1) - 1], twos_complement of the encoding of v over w bits
\* is v, and so is the value of a signed field of w bits holding that encoding.
C26_SignRoundTrip ==
    (res # <<>> /\ res.call \in {"twos_complement", "get_bits"}) => res.value = arg.v

\* The most negative 24-bit value has gone through both functions' case.
C26_Witness ==
    /\ res # <<>>
    /\ res.call = "twos_complement"
    /\ arg.w = 24
    /\ arg.v = 0 - 2 ^ 23
    /\ res.value < 0

\* The calls that run reset: reset itself and initialize, which awaits it.
ResetCalls == {"initialize", "reset"}

\* The calls of the barometer driver that issue bus operations.
DriverCalls == {"initialize", "reset", "pressure", "altitude"}

\* A reset, called on its own or within initialize, has completed.
ResetCompleted ==
    /\ bpc \in {"initialized", "reset"}
    /\ ret.call \in ResetCalls
    /\ ret.status = "ok"

\* Operation i of the call is a successful data read that follows the address
\* write of register reg.
ReadOf(reg, i) ==
    /\ i > 1
    /\ ops[i].op = "readfrom_into"
    /\ ops[i].ok
    /\ ops[i - 1].op = "writeto"
    /\ ops[i - 1].data = <<reg>>

\* Among the first n operations of the call, a read of register reg returned
\* a byte with a bit of mask set.
SawBit(reg, mask, n) ==
    \E i \in 1..n : ReadOf(reg, i) /\ BitAnd(ops[i].data[1], mask) # 0

\* C21: initialize, wait_temperature_ready and wait_pressure_ready return
\* only after a bus read of the respective ready bit (register 0x08 bit 5,
\* bit 4) has returned set.
C21_ReturnsAfterReadyRead ==
    /\ ResetCompleted => SawBit(8, 32, Len(ops)) /\ SawBit(8, 16, Len(ops))
    /\ (ret.call = "wait_temperature_ready" /\ ret.status = "ok") => SawBit(8, 32, Len(ops))
    /\ (ret.call = "wait_pressure_ready" /\ ret.status = "ok") => SawBit(8, 16, Len(ops))

\* C22: the first bus operation of every reset is the one write of the
\* soft-reset command 0x89 to register 0x0C; it has been issued when reset
\* waits out the settle time.
C22_ResetCommandFirst ==
    (ret.call \in ResetCalls /\ bpc # "off") =>
        /\ Len(ops) >= 1
        /\ ops[1].op \in {"write", "writeto"}
        /\ ops[1].data = <<12, 137>>
        /\ \A i \in DOMAIN ops : ops[i].data = <<12, 137>> => i = 1

\* C23: within a reset, no bus operation of the erratum correction (its
\* throwaway temperature read of register 0x03 included) is issued before a
\* read of register 0x08 has returned bit 6 set, and no calibration byte is
\* read before a read of register 0x08 has returned bit 7 set.
C23_PollsGate ==
    ret.call \in ResetCalls =>
        \A i \in DOMAIN ops :
            /\ (ops[i].op = "writeto" /\ ops[i].data = <<3>>) => SawBit(8, 64, i - 1)
            /\ (ops[i].op = "readfrom_into" /\ ops[i].addr = DeviceAddress)
                   => SawBit(8, 128, i - 1)

\* The operations of the call addressed to the device address.
ToDevice(o) == o.addr = DeviceAddress

CalibrationTraffic == SelectSeq(ops, ToDevice)

\* The traffic is 18 single-byte round trips, one per address 0x10 .. 0x21 in
\* ascending order.
EighteenRoundTrips(t) ==
    /\ Len(t) = 36
    /\ \A k \in 0..17 :
        /\ t[2 * k + 1].op = "writeto"
        /\ t[2 * k + 1].data = <<16 + k>>
        /\ t[2 * k + 2].op = "readfrom_into"
        /\ Len(t[2 * k + 2].data) = 1

\* C24: when a reset completes, the 18 calibration byte reads have been
\* issued within it and the nine coefficients were assigned within it, from
\* the calibration buffer it collected; and a pressure that is computed after
\* a reset was called is computed from coefficients assigned in that reset,
\* not from coefficients obtained before it.
C24_RecalibratedEveryReset ==
    /\ ResetCompleted =>
          /\ EighteenRoundTrips(CalibrationTraffic)
          /\ battr.calibrated_in = battr.finished
          /\ DOMAIN battr.c = {"c0", "c1", "c00", "c10", "c01", "c11", "c20", "c21", "c30"}
          /\ battr.c = Coefficients(battr.coeffs)
    /\ (ret.call \in {"pressure", "altitude"} /\ ret.status = "ok") =>
          /\ battr.calibrated_in = battr.resets
          /\ battr.c = Coefficients(battr.coeffs)

\* C27 as stated: after initialize both scale factors are the entry at index
\* 6 of the table, and that entry is 2,088,960.
C27_ScaleIs2088960 ==
    bpc = "initialized" =>
        /\ battr.pressure_scale = OversampleScalefactor[6 + 1]
        /\ battr.temp_scale = OversampleScalefactor[6 + 1]
        /\ OversampleScalefactor[6 + 1] = 2088960

\* C27, amended: after initialize both scale factors are the entry at index
\* 6 of the 8-entry table, and that entry is 1,040,384 (2,088,960 is the
\* entry at index 7).
C27_ScaleIs1040384 ==
    bpc = "initialized" =>
        /\ Len(OversampleScalefactor) = 8
        /\ battr.pressure_scale = OversampleScalefactor[6 + 1]
        /\ battr.temp_scale = OversampleScalefactor[6 + 1]
        /\ battr.pressure_scale = 1040384
        /\ OversampleScalefactor[7 + 1] = 2088960

\* initialize has completed and bound both scales.
C27_Witness ==
    /\ bpc = "initialized"
    /\ battr.pressure_scale = 1040384
    /\ battr.temp_scale = 1040384
    /\ battr.pressure_osbits = Plain(6)

\* A write that carries a data byte to register 0x0E, 0x0F or 0x62.
IsErratumWrite(o) ==
    o.op \in {"write", "writeto"} /\ Len(o.data) = 2 /\ o.data[1] \in {14, 15, 98}

\* The payloads of a sequence of operations.
Payload(t) == [i \in DOMAIN t |-> t[i].data]

\* The address writes of register 0x03 (the throwaway temperature read).
IsTemperatureRead(o) == o.op = "writeto" /\ o.data = <<3>>

\* C28: every reset writes 0xA5 to 0x0E, 0x96 to 0x0F, 0x02 to 0x62, 0 to
\* 0x0E and 0 to 0x0F in this order, exactly once, then does exactly one
\* throwaway temperature read, all before the first calibration byte read.
C28_ErratumSequence ==
    ResetCompleted =>
        /\ Payload(SelectSeq(ops, IsErratumWrite))
             = <<<<14, 165>>, <<15, 150>>, <<98, 2>>, <<14, 0>>, <<15, 0>>>>
        /\ Len(SelectSeq(ops, IsTemperatureRead)) = 1
        /\ \A i, j \in DOMAIN ops :
              ((IsErratumWrite(ops[i]) \/ IsTemperatureRead(ops[i])) /\ ToDevice(ops[j]))
                  => i < j

\* C29: a calibration read is 18 single-byte round trips at 0x10 .. 0x21 in
\* ascending order, and position k of the calibration buffer holds the byte
\* the device returned for address 0x10 + k.
C29_CalibrationBytesFromDevice ==
    ResetCompleted =>
        /\ EighteenRoundTrips(CalibrationTraffic)
        /\ \A k \in 0..17 : battr.coeffs[k + 1] = CalibrationTraffic[2 * k + 2].data[1]

\* C30: when reset completes, bit 7 of device register 0x07 equals bit 7 of
\* device register 0x28.
C30_SourceBitAligned ==
    ResetCompleted => BitAnd(dev[7], 128) = BitAnd(dev[40], 128)

\* C33: with a single consumer, whenever no task holds the processor (every
\* task is suspended or about to be scheduled) the event is set if and only
\* if the internal list is non-empty.
C33_SignalIffNonEmpty == NoneRunning => (ev <=> q # <<>>)

\* The consumer has removed the last item, found the event cleared and
\* suspended again.
C33_Witness ==
    /\ cs[1] = "waiting"
    /\ Len(dequeued) >= 2
    /\ q = <<>>
    /\ ~ev

\* C34: with a single consumer, get never pops the empty list.
C34_NeverPopsEmpty == \A c \in DOMAIN cs : cs[c] # "IndexError"

\* The consumer was released by one enqueue, a second enqueue came before it
\* ran, and it has since returned both items and suspended once more.
C34_Witness ==
    /\ Len(woke) >= 2
    /\ Len(dequeued) >= Len(woke) + 2
    /\ cs[1] = "waiting"
    /\ dequeued = sent

\* C35: with two tasks in get, an enqueue on the empty list with both
\* suspended releases both by the one signal, and a released task goes past
\* its wait without testing the list: resumed on the empty list it pops it.
C35_BothReleased ==
    [][/\ ((\A c \in DOMAIN cs : cs[c] = "waiting") /\ sent' # sent)
            => \A c \in DOMAIN cs : cs'[c] = "ready"
       /\ \A c \in DOMAIN cs :
            (cs[c] = "ready" /\ cs'[c] # "ready" /\ q = <<>>) => cs'[c] = "IndexError"]_vars

\* Both tasks suspended on the empty queue, one item was enqueued, the first
\* task resumed took it and the second popped the empty list.
C35_Witness ==
    /\ Len(sent) = 1
    /\ dequeued = sent
    /\ woke = sent
    /\ q = <<>>
    /\ \E c \in DOMAIN cs : cs[c] = "IndexError"

\* C40: with one consumer task calling dequeue in a loop and a fair
\* scheduler, the n-th payload enqueued is eventually the n-th payload
\* returned by dequeue and handed to the transport, and the payloads returned
\* are always an initial segment of those enqueued (none twice, none skipped).
C40_EveryPayloadSent ==
    /\ [](IsPrefix(dequeued, sent) /\ Len(dequeued) + Len(q) = Len(sent))
    /\ \A n \in 1..MaxSends : (Len(sent) >= n) ~> (Len(dequeued) >= n /\ dequeued[n] = sent[n])

\* Every payload the bound allows has been enqueued and returned, one of them
\* by a dequeue that had suspended.
C40_Witness ==
    /\ Len(sent) = MaxSends
    /\ dequeued = sent
    /\ Len(woke) >= 1

\* C36: the landing lines (elapsed time, then the maxima) are the last lines
\* of the log when the terminal buzzer pattern starts and nothing is written
\* after them; the pattern stays within its bound; it ends only by being
\* cancelled, main() ends with it and does nothing afterwards; and once
\* started the pattern is eventually cancelled.
C36_TerminalBurstBounded ==
    /\ [](pc \in {"terminal", "raised"} =>
            /\ Len(log) >= 2
            /\ log[Len(log) - 1].tag = "H"
            /\ log[Len(log)].tag = "stats"
            /\ pulses <= MaxPulses)
    /\ [][/\ buzzer' # buzzer => (pc = "terminal" /\ log' = log)
          /\ (pc = "terminal" /\ pc' # "terminal") => (pc' = "raised" /\ bz' = "cancelled")
          /\ pc # "raised"]_vars
    /\ (pc = "terminal") ~> (pc = "raised" /\ bz = "cancelled")

\* The terminal pattern sounded at least twice and was then cancelled.
C36_Witness ==
    /\ pc = "raised"
    /\ bz = "cancelled"
    /\ pulses >= 2
    /\ Count("H", log) = 1

\* The last n elements of sequence s.
LastOf(s, n) == [i \in 1..n |-> s[Len(s) - n + i]]

Min(a, b) == IF a < b THEN a ELSE b

\* C37: after the n-th tick the window holds the min(n, 3) most recent
\* samples in acquisition order, and the launch and descent tests of a tick
\* are made on the sum of the window with that tick's sample in it.
C37_WindowOfThree ==
    /\ [](LET n == Len(hs)
          IN  /\ Len(accels) = Min(n, 3)
              /\ accels = LastOf(SubSeq(zs, 1, n), Min(n, 3)))
    /\ [][hs' # hs =>
            /\ (Count("L", log') > Count("L", log)) <=> (Sum(accels') > 3000)
            /\ (Count("A", log') + Count("H", log') > Count("A", log) + Count("H", log))
                   <=> (Sum(accels') < 0)]_vars

\* A fourth sample has evicted the first, which differed from it.
C37_Witness ==
    /\ Len(hs) >= 4
    /\ Len(accels) = 3
    /\ zs[1] # zs[4]
    /\ accels[1] = zs[Len(hs) - 2]
    /\ Sum(accels) # Sum(SubSeq(zs, 1, Len(hs)))

\* C31: the bus operations of one get or set are consecutive on the bus, no
\* operation of another call lies between its first and its last, and no
\* task is ever suspended inside a get or set.
C31_CallsAtomic ==
    /\ \A t \in DOMAIN cs : cs[t].call = "idle"
    /\ \A i \in DOMAIN ops, k \in DOMAIN ops :
          (i < k /\ ops[i].task = ops[k].task /\ ops[i].n = ops[k].n)
              => \A j \in i..k : ops[j].task = ops[i].task /\ ops[j].n = ops[i].n

\* A set of task 1, then a set of task 2, then a second call of task 1.
C31_Witness ==
    /\ Len(ops) >= 8
    /\ ops[1].task = 1 /\ ops[3].op = "write" /\ ops[3].task = 1
    /\ ops[4].task = 2 /\ ops[6].op = "write" /\ ops[6].task = 2
    /\ ops[7].task = 1 /\ ops[7].n = 2

\* The kinds of a sequence of bus operations.
Kinds(t) == [i \in DOMAIN t |-> t[i].op]

\* C32: on success a get issues one address write and one data read; a set
\* on a bit or multi-bit field issues these two and then one write of the
\* address byte and the full register; a struct set issues one write only.
C32_TransactionCount ==
    (fstate = "ok" /\ ret.status = "ok") =>
        /\ ret.call = "get" => Kinds(ops) = <<"writeto", "readfrom_into">>
        /\ (ret.call = "set" /\ fld.kind # "struct") =>
              /\ Kinds(ops) = <<"writeto", "readfrom_into", "write">>
              /\ Len(ops[3].data) = 1 + fld.width
        /\ (ret.call = "set" /\ fld.kind = "struct") => Kinds(ops) = <<"write">>
        /\ ret.call \in {"get", "set"} =>
              \A i \in DOMAIN ops : ops[i].op = "readfrom_into" => Len(ops[i].data) = fld.width

\* A set on a two-byte multi-bit field has succeeded.
C32_Witness ==
    /\ fstate = "ok"
    /\ fld.kind = "bits"
    /\ fld.width = 2
    /\ ret.call = "set"
    /\ ret.status = "ok"
    /\ Len(ops) = 3
    /\ Len(ops[3].data) = 3

\* C38: every bus operation of a barometer driver call is addressed to the
\* device address 0x77.
C38_AddressedToDevice ==
    ret.call \in DriverCalls => \A i \in DOMAIN ops : ops[i].addr = DeviceAddress

\* C39: between two consecutive ticks of the flight loop main() passes a
\* suspension point: a tick that is followed by another tick has suspended
\* main() at least once.
C39_SuspensionBetweenTicks ==
    [][(hs' # hs /\ pc' = "loop") => yields' > yields]_vars

====
